---- MODULE Spec2Model ----
(***************************************************************************)
(* Model of the signal-neural-network crate's neural module:               *)
(*   - combinator.rs : the twelve Combinator strategies and                *)
(*                     combinator_from_str, the name resolver;             *)
(*   - mapper.rs     : MapperNode, a 256-entry byte-to-byte lookup table   *)
(*                     and its builder operations.                         *)
(* Bytes are the integers 0..255.  u8 arithmetic that can overflow is      *)
(* modelled with both outcomes a build can produce: a panic when the       *)
(* build has overflow checks (debug profile), wraparound modulo 256 when   *)
(* it has not (release profile).                                           *)
(***************************************************************************)
EXTENDS Integers, Sequences, FiniteSets, TLC

VARIABLES
    pc,         \* position of the caller in the scenario being run
    name,       \* resolver: the name given to combinator_from_str
    strategy,   \* resolver: Option<Box<dyn Combinator>> returned for name
    ident,      \* resolver: identifier() of the resolved strategy
    strategy2,  \* resolver: combinator_from_str(ident)
    inputs,     \* combine: the slice &[u8] handed to combine
    kind,       \* combine: the strategy whose combine ran
    result,     \* combine: outcome of combine, Ok(byte) or Panic
    maps,       \* mapper: the MapperNode instances alive, in creation order
    last,       \* mapper: the last MapperNode call, its receiver and arguments
    made,       \* mapper_defaults: for each instance, the function that made it
    node        \* nodes: the Node the caller holds, if any

vars == <<pc, name, strategy, ident, strategy2, inputs, kind, result, maps, last,
          made, node>>

(***************************************************************************)
(* Bounds of the model.                                                    *)
(***************************************************************************)
MaxLen == 4
MaxNameLen == 3
MaxMaps == 3
MaxPairs == 3
MaxPresets == 2

(***************************************************************************)
(* Bytes.                                                                  *)
(***************************************************************************)
MAX == 255
MAX_LENGTH == MAX + 1
Byte == 0..MAX

\* Outcome of a call returning u8: a value, or a panic (unwinding).
Ok(v) == [ok |-> TRUE, v |-> v]
Panic == [ok |-> FALSE, v |-> 0]

\* u8 + u8 and u8 * u8: panic with overflow checks, wrap without.
u8_add(a, b, checks) ==
    IF a + b > MAX
    THEN (IF checks THEN Panic ELSE Ok((a + b) % MAX_LENGTH))
    ELSE Ok(a + b)

u8_mul(a, b, checks) ==
    IF a * b > MAX
    THEN (IF checks THEN Panic ELSE Ok((a * b) % MAX_LENGTH))
    ELSE Ok(a * b)

\* Bitwise operators on bytes, bit by bit from the least significant.
RECURSIVE BitOp(_, _, _, _)
BitOp(op, a, b, n) ==
    IF n = 0 THEN 0
    ELSE LET x == a % 2
             y == b % 2
             bit == CASE op = "and" -> (IF x = 1 /\ y = 1 THEN 1 ELSE 0)
                      [] op = "or"  -> (IF x = 1 \/ y = 1 THEN 1 ELSE 0)
                      [] op = "xor" -> (IF x # y THEN 1 ELSE 0)
         IN  bit + 2 * BitOp(op, a \div 2, b \div 2, n - 1)

AndTable == [a \in Byte |-> [b \in Byte |-> BitOp("and", a, b, 8)]]
OrTable  == [a \in Byte |-> [b \in Byte |-> BitOp("or", a, b, 8)]]
XorTable == [a \in Byte |-> [b \in Byte |-> BitOp("xor", a, b, 8)]]

BitAnd(a, b) == AndTable[a][b]
BitOr(a, b)  == OrTable[a][b]
BitXor(a, b) == XorTable[a][b]

\* A closure is its code (fn) and the values it captures (env).
Closure(fn, env) == [fn |-> fn, env |-> env]

\* The call f(acc, x) of a closure handed to fold, sum or product.
call_fold(f, acc, x) ==
    CASE f.fn = "add"       -> u8_add(acc, x, f.env)   \* Sum for u8
      [] f.fn = "mul"       -> u8_mul(acc, x, f.env)   \* Product for u8
      [] f.fn = "usize_add" -> acc + x                 \* Sum for usize
      [] f.fn = "and"       -> BitAnd(acc, x)          \* |acc, &x| acc & x
      [] f.fn = "or"        -> BitOr(acc, x)           \* |acc, &x| acc | x
      [] f.fn = "xor"       -> BitXor(acc, x)          \* |acc, &x| acc ^ x
BitNot(a)    == XorTable[a][MAX]

(***************************************************************************)
(* combinator.rs: the strategies.  A strategy is a unit struct, so it is   *)
(* represented by the name of its type.                                    *)
(***************************************************************************)
Kinds == {"Addition", "Multiplication", "Max", "Min", "Average", "Median",
          "OR", "AND", "XOR", "NAND", "NOR", "XNOR"}

\* s.iter().fold(init, f) for an f that cannot fail.
RECURSIVE Fold(_, _, _)
Fold(f, acc, s) ==
    IF s = <<>> THEN acc ELSE Fold(f, call_fold(f, acc, Head(s)), Tail(s))

\* s.iter().fold(init, f) for an f returning Ok or Panic: a panic ends the fold.
RECURSIVE TryFold(_, _, _)
TryFold(f, acc, s) ==
    IF s = <<>> THEN Ok(acc)
    ELSE LET r == call_fold(f, acc, Head(s))
         IN  IF r.ok THEN TryFold(f, r.v, Tail(s)) ELSE Panic

\* impl Sum for u8 / impl Product for u8: a fold of + from 0, of * from 1,
\* inheriting the caller's overflow checks.
AdditionCombine(in, checks) ==
    TryFold(Closure("add", checks), 0, in)

MultiplicationCombine(in, checks) ==
    TryFold(Closure("mul", checks), 1, in)

\* Option<T>.
Some(x) == [some |-> TRUE, x |-> x]
None == [some |-> FALSE]
unwrap_or(o, d) == IF o.some THEN o.x ELSE d

\* Iterator::max / Iterator::min, None on an empty iterator.
IterMax(in) ==
    IF in = <<>> THEN None
    ELSE Some(CHOOSE x \in Byte :
                  /\ \E i \in 1..Len(in) : in[i] = x
                  /\ \A i \in 1..Len(in) : in[i] <= x)
IterMin(in) ==
    IF in = <<>> THEN None
    ELSE Some(CHOOSE x \in Byte :
                  /\ \E i \in 1..Len(in) : in[i] = x
                  /\ \A i \in 1..Len(in) : in[i] >= x)

MaxCombine(in) == Ok(unwrap_or(IterMax(in), 0))
MinCombine(in) == Ok(unwrap_or(IterMin(in), 0))

\* The usize accumulator cannot overflow for any slice that fits in memory.
UsizeSum(in) == Fold(Closure("usize_add", <<>>), 0, in)

\* `as u8`: truncation to the low eight bits.
as_u8(n) == n % MAX_LENGTH

AverageCombine_u8sum(in) ==
    IF in = <<>> THEN Ok(0)
    ELSE LET wrapped == AdditionCombine(in, FALSE)
         IN  Ok(as_u8(wrapped.v \div Len(in)))

AverageCombine(in) ==
    IF in = <<>> THEN Ok(0)
    ELSE Ok(as_u8(UsizeSum(in) \div Len(in)))

\* sort_unstable on bytes: the ascending permutation (insertion sort).
RECURSIVE Insert(_, _)
Insert(x, s) ==
    IF s = <<>> THEN <<x>>
    ELSE IF x <= Head(s) THEN <<x>> \o s
    ELSE <<Head(s)>> \o Insert(x, Tail(s))

RECURSIVE sort_unstable(_)
sort_unstable(s) ==
    IF s = <<>> THEN <<>> ELSE Insert(Head(s), sort_unstable(Tail(s)))

\* Rust slices are 0-based: sorted[i] is element i + 1 of the sequence.
MedianCombine(in, checks) ==
    IF in = <<>> THEN Ok(0)
    ELSE LET sorted == sort_unstable(in)
             mid == Len(sorted) \div 2
         IN  IF Len(sorted) % 2 = 0
             THEN LET s == u8_add(sorted[mid - 1 + 1], sorted[mid + 1], checks)
                  IN  IF s.ok THEN Ok(s.v \div 2) ELSE Panic
             ELSE Ok(sorted[mid + 1])

ORCombine(in)  == Ok(Fold(Closure("or", <<>>), 0, in))

ANDCombine_zero(in) == Ok(Fold(Closure("and", <<>>), 0, in))

ANDCombine(in) == Ok(Fold(Closure("and", <<>>), 255, in))
XORCombine(in) == Ok(Fold(Closure("xor", <<>>), 0, in))
NANDCombine(in) == Ok(BitNot(Fold(Closure("and", <<>>), 255, in)))
NORCombine(in)  == Ok(BitNot(Fold(Closure("or", <<>>), 0, in)))
XNORCombine(in) == Ok(BitNot(Fold(Closure("xor", <<>>), 0, in)))

(***************************************************************************)
(* combinator.rs: identifiers and the resolver.  A &str is modelled as the *)
(* sequence of its characters so that to_lowercase acts on it character by *)
(* character.                                                              *)
(***************************************************************************)
UpperChars == <<"A", "B", "C", "D", "E", "F", "G", "H", "I", "J", "K", "L", "M", "N", "O", "P", "Q", "R", "S", "T", "U", "V", "W", "X", "Y", "Z">>
LowerChars == <<"a", "b", "c", "d", "e", "f", "g", "h", "i", "j", "k", "l", "m", "n", "o", "p", "q", "r", "s", "t", "u", "v", "w", "x", "y", "z">>

\* char::to_lowercase on the characters of the model's alphabet.
char_to_lowercase(c) ==
    IF \E i \in 1..Len(UpperChars) : UpperChars[i] = c
    THEN LowerChars[CHOOSE i \in 1..Len(UpperChars) : UpperChars[i] = c]
    ELSE c

\* str::to_lowercase.
to_lowercase(str) == [i \in 1..Len(str) |-> char_to_lowercase(str[i])]

\* The IDENTIFIER constant of each strategy type.
AdditionIDENTIFIER == <<"a", "d", "d", "i", "t", "i", "o", "n">>

MultiplicationIDENTIFIER_alias == <<"m", "u", "l", "t", "i", "p", "l", "i", "c", "a", "t", "i", "o", "n">>

MultiplicationIDENTIFIER == <<"m", "u", "l", "t", "i", "p", "l", "y">>
MaxIDENTIFIER == <<"m", "a", "x">>
MinIDENTIFIER == <<"m", "i", "n">>
AverageIDENTIFIER == <<"a", "v", "e", "r", "a", "g", "e">>
MedianIDENTIFIER == <<"m", "e", "d", "i", "a", "n">>
ORIDENTIFIER == <<"o", "r">>
ANDIDENTIFIER == <<"a", "n", "d">>
XORIDENTIFIER == <<"x", "o", "r">>
NANDIDENTIFIER == <<"n", "a", "n", "d">>
NORIDENTIFIER == <<"n", "o", "r">>
XNORIDENTIFIER == <<"x", "n", "o", "r">>

\* Combinator::identifier, dispatched on the strategy's type.
identifier(k) ==
    CASE k = "Addition"       -> AdditionIDENTIFIER
      [] k = "Multiplication" -> MultiplicationIDENTIFIER
      [] k = "Max"            -> MaxIDENTIFIER
      [] k = "Min"            -> MinIDENTIFIER
      [] k = "Average"        -> AverageIDENTIFIER
      [] k = "Median"         -> MedianIDENTIFIER
      [] k = "OR"             -> ORIDENTIFIER
      [] k = "AND"            -> ANDIDENTIFIER
      [] k = "XOR"            -> XORIDENTIFIER
      [] k = "NAND"           -> NANDIDENTIFIER
      [] k = "NOR"            -> NORIDENTIFIER
      [] k = "XNOR"           -> XNORIDENTIFIER

\* The match of combinator_from_str on an already prepared scrutinee: arms
\* are tried in order, the first matching arm wins.
match_name(n) ==
    IF n \in {AdditionIDENTIFIER, <<"a", "d", "d">>, <<"+">>} THEN Some("Addition")
    ELSE IF n \in {MultiplicationIDENTIFIER, <<"m", "u", "l", "t", "i", "p", "l", "i", "c", "a", "t", "i", "o", "n">>, <<"*">>}
         THEN Some("Multiplication")
    ELSE IF n = MaxIDENTIFIER THEN Some("Max")
    ELSE IF n = MinIDENTIFIER THEN Some("Min")
    ELSE IF n \in {AverageIDENTIFIER, <<"a", "v", "g">>} THEN Some("Average")
    ELSE IF n = MedianIDENTIFIER THEN Some("Median")
    ELSE IF n = ORIDENTIFIER THEN Some("OR")
    ELSE IF n = ANDIDENTIFIER THEN Some("AND")
    ELSE IF n = XORIDENTIFIER THEN Some("XOR")
    ELSE IF n = NANDIDENTIFIER THEN Some("NAND")
    ELSE IF n = NORIDENTIFIER THEN Some("NOR")
    ELSE IF n = XNORIDENTIFIER THEN Some("XNOR")
    ELSE None

combinator_from_str_exact(str) == match_name(str)

combinator_from_str(str) == match_name(to_lowercase(str))

(***************************************************************************)
(* mapper.rs: MapperNode.  The table tf: [u8; MAX_LENGTH] is a function on *)
(* the indices 0..MAX_LENGTH-1.                                            *)
(***************************************************************************)
Indices == 0..(MAX_LENGTH - 1)

new_short == [i \in 0..(MAX - 1) |-> 0]

new == [i \in Indices |-> 0]

new_from(data) == data

\* The closures handed to new_transformation(transfn: Fn(usize) -> u8).
TransFns == {"identity", "add_one"}
transfn(f, i) ==
    CASE f = "identity" -> as_u8(i)
      [] f = "add_one"  -> as_u8(i + 1)
      \* mapper_defaults.rs: let y = x as u8; if y < 128 { y } else { 255 - y }
      [] f = "pyramid"  -> LET y == as_u8(i) IN IF y < 128 THEN y ELSE 255 - y
      \* mapper_defaults.rs: if y < 128 { 255 - y } else { y }
      [] f = "pyramid_inverted" ->
             LET y == as_u8(i) IN IF y < 128 THEN 255 - y ELSE y

new_transformation(f) == new_from([i \in Indices |-> transfn(f, i)])

tranform(self, input) == self[input]

len(self) == Cardinality(DOMAIN self)

with_fill(self, value) == new_from([i \in Indices |-> value])

\* for (k, v) in mapdata { data[k as usize] = v; }
RECURSIVE WritePairs(_, _)
WritePairs(data, mapdata) ==
    IF mapdata = <<>> THEN data
    ELSE LET k == Head(mapdata)[1]
             v == Head(mapdata)[2]
         IN  WritePairs([data EXCEPT ![k] = v], Tail(mapdata))

with_mapdata_first_wins(self, mapdata) ==
    new_from([i \in Indices |->
        IF \E j \in 1..Len(mapdata) : mapdata[j][1] = i
        THEN mapdata[CHOOSE j \in 1..Len(mapdata) :
                         /\ mapdata[j][1] = i
                         /\ \A h \in 1..(j - 1) : mapdata[h][1] # i][2]
        ELSE self[i]])

with_mapdata(self, mapdata) == new_from(WritePairs(self, mapdata))

\* HashMap::iter: the entries of the map (a function key -> value), each
\* once, in an order the hasher decides.
HashMapIter(h) ==
    LET n == Cardinality(DOMAIN h)
        order == CHOOSE o \in [1..n -> DOMAIN h] :
                     \A i, j \in 1..n : i # j => o[i] # o[j]
    IN  [i \in 1..n |-> <<order[i], h[order[i]]>>]

with_mapdata_hashmap(self, mapdata) ==
    new_from(WritePairs(self, HashMapIter(mapdata)))

\* a..=b as an iterator: empty when a > b.
RangeInclusive(a, b) == IF a > b THEN <<>> ELSE [i \in 1..(b - a + 1) |-> a + i - 1]

RECURSIVE WriteRange(_, _, _)
WriteRange(data, range, value) ==
    IF range = <<>> THEN data
    ELSE WriteRange([data EXCEPT ![Head(range)] = value], Tail(range), value)

with_range(self, range, value) == new_from(WriteRange(self, range, value))

\* The call modification(i, d) of a closure handed to with_modification:
\* the closures of mapper.rs, and add_index, a closure of a caller.
call_modification(f, i, d) ==
    CASE f.fn = "invert"    -> MAX - d                \* MAX as u8 - d, d <= MAX
      [] f.fn = "not"       -> BitNot(d)
      [] f.fn = "and_node"  -> BitAnd(d, f.env[i])    \* d & other.tf[i]
      [] f.fn = "and"       -> BitAnd(d, f.env)       \* d & v
      [] f.fn = "or_node"   -> BitOr(d, f.env[i])
      [] f.fn = "or"        -> BitOr(d, f.env)
      [] f.fn = "xor_node"  -> BitXor(d, f.env[i])
      [] f.fn = "xor"       -> BitXor(d, f.env)
      [] f.fn = "add_index" -> as_u8(i + d)

ModFns == {"add_index"}

\* for i in 0..MAX_LENGTH { data[i] = modification(i, data[i]); }
with_modification(self, modification) ==
    new_from([i \in Indices |-> call_modification(modification, i, self[i])])

invert(self) == with_modification(self, Closure("invert", <<>>))
not(self) == with_modification(self, Closure("not", <<>>))

and_node_chained(self, other) ==
    new_from([i \in Indices |-> BitAnd(self[i], other[self[i]])])

and_node(self, other) == with_modification(self, Closure("and_node", other))
and(self, v) == with_modification(self, Closure("and", v))
or_node(self, other) == with_modification(self, Closure("or_node", other))
or(self, v) == with_modification(self, Closure("or", v))
xor_node(self, other) == with_modification(self, Closure("xor_node", other))
xor(self, v) == with_modification(self, Closure("xor", v))

Returned_through_self(pool, self, r) == Append([pool EXCEPT ![self] = r], r)

\* A call that returns a MapperNode: the builders copy self.tf into a local
\* array (let mut data = self.tf), so the receiver and the argument stay as
\* they are and the returned value is a new instance.
Returned(pool, self, r) == Append(pool, r)

\* The record of a call: operation, receiver, argument map, other argument.
Call(op, self, other, arg) == [op |-> op, self |-> self, other |-> other, arg |-> arg]
NoCall == Call("", 0, 0, <<>>)

(***************************************************************************)
(* mapper_defaults.rs: the preset maps.  Byte literals are written as      *)
(* their values: b'0' = 48, b'9' = 57, b'A' = 65, b'Z' = 90, b'a' = 97,    *)
(* b'z' = 122, b'!' = 33, b'~' = 126, b' ' = 32, b'\n' = 10.               *)
(***************************************************************************)
create_mapper_for_lowercase == with_range(new, RangeInclusive(97, 122), 255)

create_mapper_for_uppercase == with_range(new, RangeInclusive(65, 90), 255)

create_mapper_for_letters ==
    with_range(with_range(new, RangeInclusive(97, 122), 255),
               RangeInclusive(65, 90), 255)

create_mapper_for_letters_cased ==
    with_range(with_range(new, RangeInclusive(97, 122), 255),
               RangeInclusive(65, 90), 240)

\* The five with_range calls of the chain, applied first to last.
create_mapper_for_character ==
    LET digits    == with_range(new, RangeInclusive(48, 57), 1)
        lower     == with_range(digits, RangeInclusive(97, 122), 2)
        upper     == with_range(lower, RangeInclusive(65, 90), 4)
        printable == with_range(upper, RangeInclusive(33, 126), 8)
    IN  with_range(printable, RangeInclusive(32, 10), 16)

create_mapper_pyramid == new_transformation("pyramid")

create_mapper_pyramid_inverted_off_by_one ==
    new_from([i \in Indices |-> IF i <= 128 THEN 255 - i ELSE i])

create_mapper_pyramid_inverted == new_transformation("pyramid_inverted")

(***************************************************************************)
(* nodes.rs: Node.  Its table tf: [u8; MAX] has MAX entries, where the     *)
(* MAX of nodes.rs is u8::MAX as usize.                                    *)
(***************************************************************************)
NodeMAX == 255

Node_new == [i \in 0..(NodeMAX - 1) |-> 0]

\* self.tf[input as usize]: indexing an array is bounds-checked in every
\* build and panics when the index is not below the array's length.
Node_tranform(self, input) ==
    IF input \in DOMAIN self THEN Ok(self[input]) ELSE Panic

(***************************************************************************)
(* Inputs of the scenarios.                                                *)
(***************************************************************************)
\* All sequences over S of length at most n.
BoundedSeq(S, n) == UNION {[1..k -> S] : k \in 0..n}

\* Byte values fed to combine: small values, the values of the documented
\* examples, and the two ends of the range.
InputBytes == {0, 1, 2, 3, 4, 16, 100, 200, 255}
InputSeqs == BoundedSeq(InputBytes, MaxLen)

\* Upper-casing, used only to build differently cased spellings of a name.
Upcase(str) ==
    [i \in 1..Len(str) |->
        IF \E j \in 1..Len(LowerChars) : LowerChars[j] = str[i]
        THEN UpperChars[CHOOSE j \in 1..Len(LowerChars) : LowerChars[j] = str[i]]
        ELSE str[i]]
Capitalize(str) ==
    IF str = <<>> THEN str ELSE <<Upcase(str)[1]>> \o Tail(str)

SpelledNames == {
    <<"a", "d", "d", "i", "t", "i", "o", "n">>,
    <<"m", "u", "l", "t", "i", "p", "l", "y">>,
    <<"m", "a", "x">>,
    <<"m", "i", "n">>,
    <<"a", "v", "e", "r", "a", "g", "e">>,
    <<"m", "e", "d", "i", "a", "n">>,
    <<"o", "r">>,
    <<"a", "n", "d">>,
    <<"x", "o", "r">>,
    <<"n", "a", "n", "d">>,
    <<"n", "o", "r">>,
    <<"x", "n", "o", "r">>,
    <<"a", "d", "d">>,
    <<"+">>,
    <<"m", "u", "l", "t", "i", "p", "l", "i", "c", "a", "t", "i", "o", "n">>,
    <<"*">>,
    <<"a", "v", "g">>,
    <<"n", "o", "n", "e", "x", "i", "s", "t", "e", "n", "t">>,
    <<"s", "u", "m">>,
    <<"a", "d", "d", "i", "t", "i", "o", "n", "s">>,
    <<"a", "d">>,
    <<"n", "a", "n", "d", "d">> }

NameAlphabet == {"a", "d", "A", "D", "o", "r", "O", "R", "x", "+"}

Names ==
    BoundedSeq(NameAlphabet, MaxNameLen)
    \cup SpelledNames
    \cup {Upcase(n) : n \in SpelledNames}
    \cup {Capitalize(n) : n \in SpelledNames}

(***************************************************************************)
(* Scenario 1: a caller resolves a name, asks the strategy for its         *)
(* identifier and resolves that identifier again; or it constructs a       *)
(* strategy with new() and does the same.                                  *)
(***************************************************************************)
InitResolve ==
    /\ pc = "name"
    /\ name \in Names
    /\ strategy = None
    /\ ident = <<>>
    /\ strategy2 = None
    /\ inputs = <<>>
    /\ kind = ""
    /\ result = Ok(0)
    /\ maps = <<>>
    /\ last = NoCall
    /\ made = <<>>
    /\ node = None

Resolve ==
    /\ pc = "name"
    /\ strategy' = combinator_from_str(name)
    /\ pc' = "resolved"
    /\ UNCHANGED <<name, ident, strategy2, inputs, kind, result, maps, last, made, node>>

NewCombinator(k) ==
    /\ pc = "name"
    /\ strategy' = Some(k)
    /\ pc' = "constructed"
    /\ UNCHANGED <<name, ident, strategy2, inputs, kind, result, maps, last, made, node>>

Identifier ==
    /\ pc \in {"resolved", "constructed"}
    /\ strategy.some
    /\ ident' = identifier(strategy.x)
    /\ pc' = "identified"
    /\ UNCHANGED <<name, strategy, strategy2, inputs, kind, result, maps, last, made, node>>

ResolveIdentifier ==
    /\ pc = "identified"
    /\ strategy2' = combinator_from_str(ident)
    /\ pc' = "roundtrip"
    /\ UNCHANGED <<name, strategy, ident, inputs, kind, result, maps, last, made, node>>

NextResolve ==
    \/ Resolve
    \/ \E k \in Kinds : NewCombinator(k)
    \/ Identifier
    \/ ResolveIdentifier

SpecResolve == InitResolve /\ [][NextResolve]_vars

(***************************************************************************)
(* Scenario 2: a caller applies one strategy's combine to a slice.  The    *)
(* build profile decides whether u8 arithmetic is overflow-checked.        *)
(***************************************************************************)
InitCombine ==
    /\ pc = "input"
    /\ inputs \in InputSeqs
    /\ kind = ""
    /\ result = Ok(0)
    /\ name = <<>>
    /\ strategy = None
    /\ ident = <<>>
    /\ strategy2 = None
    /\ maps = <<>>
    /\ last = NoCall
    /\ made = <<>>
    /\ node = None

Combined(k, r) ==
    /\ pc = "input"
    /\ kind' = k
    /\ result' = r
    /\ pc' = "combined"
    /\ UNCHANGED <<inputs, name, strategy, ident, strategy2, maps, last, made, node>>

AdditionCombinatorNode_combine ==
    \E checks \in BOOLEAN : Combined("Addition", AdditionCombine(inputs, checks))
MultiplicationCombinatorNode_combine ==
    \E checks \in BOOLEAN :
        Combined("Multiplication", MultiplicationCombine(inputs, checks))
MaxCombinatorNode_combine == Combined("Max", MaxCombine(inputs))
MinCombinatorNode_combine == Combined("Min", MinCombine(inputs))
AverageCombinatorNode_combine == Combined("Average", AverageCombine(inputs))
MedianCombinatorNode_combine ==
    \E checks \in BOOLEAN : Combined("Median", MedianCombine(inputs, checks))
ORCombinatorNode_combine == Combined("OR", ORCombine(inputs))
ANDCombinatorNode_combine == Combined("AND", ANDCombine(inputs))
XORCombinatorNode_combine == Combined("XOR", XORCombine(inputs))
NANDCombinatorNode_combine == Combined("NAND", NANDCombine(inputs))
NORCombinatorNode_combine == Combined("NOR", NORCombine(inputs))
XNORCombinatorNode_combine == Combined("XNOR", XNORCombine(inputs))

NextCombine ==
    \/ AdditionCombinatorNode_combine
    \/ MultiplicationCombinatorNode_combine
    \/ MaxCombinatorNode_combine
    \/ MinCombinatorNode_combine
    \/ AverageCombinatorNode_combine
    \/ MedianCombinatorNode_combine
    \/ ORCombinatorNode_combine
    \/ ANDCombinatorNode_combine
    \/ XORCombinatorNode_combine
    \/ NANDCombinatorNode_combine
    \/ NORCombinatorNode_combine
    \/ XNORCombinatorNode_combine

SpecCombine == InitCombine /\ [][NextCombine]_vars

(***************************************************************************)
(* Scenario 3: a caller constructs MapperNodes and derives new ones from   *)
(* those it holds, up to MaxMaps instances.                                *)
(***************************************************************************)
\* A caller-supplied [u8; 256] for new_from.
SampleTable == [i \in Indices |-> (7 * i + 3) % MAX_LENGTH]

ByteArgs == {204}
FillArgs == {170}
PoolPairLists == {<< <<1, 42>>, <<255, 99>> >>, << <<1, 42>>, <<1, 99>> >>}
PoolHashMaps == {[k \in {1, 255} |-> IF k = 1 THEN 42 ELSE 99]}
\* b'a'..=b'z' and b' '..=b'\n'.
PoolRanges == {RangeInclusive(97, 122), RangeInclusive(32, 10)}

InitPool ==
    /\ pc = "pool"
    /\ maps = <<>>
    /\ last = NoCall
    /\ made = <<>>
    /\ node = None
    /\ name = <<>>
    /\ strategy = None
    /\ ident = <<>>
    /\ strategy2 = None
    /\ inputs = <<>>
    /\ kind = ""
    /\ result = Ok(0)

\* A constructor call: a new instance, no receiver.
Construct(op, arg, r) ==
    /\ pc = "pool"
    /\ Len(maps) < MaxMaps
    /\ maps' = Append(maps, r)
    /\ last' = Call(op, 0, 0, arg)
    /\ UNCHANGED <<pc, name, strategy, ident, strategy2, inputs, kind, result, made, node>>

\* A builder call on the instance self (and the instance other).
Build(op, self, other, arg, r) ==
    /\ pc = "pool"
    /\ Len(maps) < MaxMaps
    /\ maps' = Returned(maps, self, r)
    /\ last' = Call(op, self, other, arg)
    /\ UNCHANGED <<pc, name, strategy, ident, strategy2, inputs, kind, result, made, node>>

Held == 1..Len(maps)

New == Construct("new", <<>>, new)
NewFrom == Construct("new_from", <<>>, new_from(SampleTable))
NewTransformation ==
    \E f \in TransFns : Construct("new_transformation", f, new_transformation(f))
WithFill ==
    \E s \in Held, v \in FillArgs :
        Build("with_fill", s, 0, v, with_fill(maps[s], v))
WithMapdata ==
    \E s \in Held, P \in PoolPairLists :
        Build("with_mapdata", s, 0, P, with_mapdata(maps[s], P))
WithMapdataHashmap ==
    \E s \in Held, h \in PoolHashMaps :
        Build("with_mapdata_hashmap", s, 0, h, with_mapdata_hashmap(maps[s], h))
WithRange ==
    \E s \in Held, r \in PoolRanges :
        Build("with_range", s, 0, r, with_range(maps[s], r, 1))
WithModification ==
    \E s \in Held, f \in ModFns :
        Build("with_modification", s, 0, f,
              with_modification(maps[s], Closure(f, <<>>)))
Invert == \E s \in Held : Build("invert", s, 0, <<>>, invert(maps[s]))
Not == \E s \in Held : Build("not", s, 0, <<>>, not(maps[s]))
And == \E s \in Held, v \in ByteArgs : Build("and", s, 0, v, and(maps[s], v))
Or == \E s \in Held, v \in ByteArgs : Build("or", s, 0, v, or(maps[s], v))
Xor == \E s \in Held, v \in ByteArgs : Build("xor", s, 0, v, xor(maps[s], v))
AndNode ==
    \E s \in Held, o \in Held :
        Build("and_node", s, o, <<>>, and_node(maps[s], maps[o]))
OrNode ==
    \E s \in Held, o \in Held :
        Build("or_node", s, o, <<>>, or_node(maps[s], maps[o]))
XorNode ==
    \E s \in Held, o \in Held :
        Build("xor_node", s, o, <<>>, xor_node(maps[s], maps[o]))

NextPool ==
    \/ New
    \/ NewFrom
    \/ NewTransformation
    \/ WithFill
    \/ WithMapdata
    \/ WithMapdataHashmap
    \/ WithRange
    \/ WithModification
    \/ Invert
    \/ Not
    \/ And
    \/ Or
    \/ Xor
    \/ AndNode
    \/ OrNode
    \/ XorNode

SpecPool == InitPool /\ [][NextPool]_vars

(***************************************************************************)
(* Scenario 4: one call of with_mapdata or of a node-combining operation,  *)
(* on maps a (held first) and b (held second) that constructors built.     *)
(***************************************************************************)
BaseMaps == {new, new_from(SampleTable),
             new_transformation("identity"), new_transformation("add_one")}

PairSet == {<<1, 42>>, <<1, 99>>, <<255, 99>>, <<0, 7>>}
PairLists == BoundedSeq(PairSet, MaxPairs)

InitApply ==
    /\ pc = "apply"
    /\ maps \in [1..2 -> BaseMaps]
    /\ last = NoCall
    /\ made = <<>>
    /\ node = None
    /\ name = <<>>
    /\ strategy = None
    /\ ident = <<>>
    /\ strategy2 = None
    /\ inputs = <<>>
    /\ kind = ""
    /\ result = Ok(0)

Apply(op, self, other, arg, r) ==
    /\ pc = "apply"
    /\ maps' = Returned(maps, self, r)
    /\ last' = Call(op, self, other, arg)
    /\ pc' = "applied"
    /\ UNCHANGED <<name, strategy, ident, strategy2, inputs, kind, result, made, node>>

ApplyWithMapdata ==
    \E P \in PairLists : Apply("with_mapdata", 1, 0, P, with_mapdata(maps[1], P))
ApplyAndNode == Apply("and_node", 1, 2, <<>>, and_node(maps[1], maps[2]))
ApplyOrNode == Apply("or_node", 1, 2, <<>>, or_node(maps[1], maps[2]))
ApplyXorNode == Apply("xor_node", 1, 2, <<>>, xor_node(maps[1], maps[2]))

NextApply ==
    \/ ApplyWithMapdata
    \/ ApplyAndNode
    \/ ApplyOrNode
    \/ ApplyXorNode

SpecApply == InitApply /\ [][NextApply]_vars

(***************************************************************************)
(* Scenario 5: a caller builds up to MaxPresets preset maps and looks a    *)
(* byte up in the one built last.                                          *)
(***************************************************************************)
InitDefaults ==
    /\ pc = "defaults"
    /\ maps = <<>>
    /\ last = NoCall
    /\ made = <<>>
    /\ node = None
    /\ name = <<>>
    /\ strategy = None
    /\ ident = <<>>
    /\ strategy2 = None
    /\ inputs = <<>>
    /\ kind = ""
    /\ result = Ok(0)

Created(preset, r) ==
    /\ pc = "defaults"
    /\ Len(maps) < MaxPresets
    /\ maps' = Append(maps, r)
    /\ made' = Append(made, preset)
    /\ last' = Call(preset, 0, 0, <<>>)
    /\ UNCHANGED <<pc, name, strategy, ident, strategy2, inputs, kind, result, node>>

CreateMapperForLowercase ==
    Created("create_mapper_for_lowercase", create_mapper_for_lowercase)
CreateMapperForUppercase ==
    Created("create_mapper_for_uppercase", create_mapper_for_uppercase)
CreateMapperForLetters ==
    Created("create_mapper_for_letters", create_mapper_for_letters)
CreateMapperForLettersCased ==
    Created("create_mapper_for_letters_cased", create_mapper_for_letters_cased)
CreateMapperForCharacter ==
    Created("create_mapper_for_character", create_mapper_for_character)
CreateMapperPyramid ==
    Created("create_mapper_pyramid", create_mapper_pyramid)
CreateMapperPyramidInverted ==
    Created("create_mapper_pyramid_inverted", create_mapper_pyramid_inverted)

\* Mapper::transform on the map built last.
Transform ==
    \E b \in Byte :
        /\ pc = "defaults"
        /\ maps # <<>>
        /\ last' = Call("tranform", Len(maps), 0, b)
        /\ result' = Ok(tranform(maps[Len(maps)], b))
        /\ pc' = "transformed"
        /\ UNCHANGED <<name, strategy, ident, strategy2, inputs, kind, maps, made, node>>

NextDefaults ==
    \/ CreateMapperForLowercase
    \/ CreateMapperForUppercase
    \/ CreateMapperForLetters
    \/ CreateMapperForLettersCased
    \/ CreateMapperForCharacter
    \/ CreateMapperPyramid
    \/ CreateMapperPyramidInverted
    \/ Transform

SpecDefaults == InitDefaults /\ [][NextDefaults]_vars

(***************************************************************************)
(* Scenario 6: a caller builds a Node and looks a byte up in it.           *)
(***************************************************************************)
InitNode ==
    /\ pc = "node"
    /\ node = None
    /\ maps = <<>>
    /\ last = NoCall
    /\ made = <<>>
    /\ name = <<>>
    /\ strategy = None
    /\ ident = <<>>
    /\ strategy2 = None
    /\ inputs = <<>>
    /\ kind = ""
    /\ result = Ok(0)

NodeNew ==
    /\ pc = "node"
    /\ ~ node.some
    /\ node' = Some(Node_new)
    /\ last' = Call("Node::new", 0, 0, <<>>)
    /\ UNCHANGED <<pc, name, strategy, ident, strategy2, inputs, kind, result, maps, made>>

NodeTranform ==
    \E b \in Byte :
        /\ pc = "node"
        /\ node.some
        /\ result' = Node_tranform(node.x, b)
        /\ last' = Call("Node::tranform", 0, 0, b)
        /\ pc' = "node_transformed"
        /\ UNCHANGED <<name, strategy, ident, strategy2, inputs, kind, maps, made, node>>

NextNode ==
    \/ NodeNew
    \/ NodeTranform

SpecNode == InitNode /\ [][NextNode]_vars

(***************************************************************************)
(* Reference definitions used to state the claims: the documented name     *)
(* table, and exact (unbounded integer) arithmetic on sequences.           *)
(***************************************************************************)
\* <<recognised lower-case name, canonical identifier>>.
NameTable == {
    <<<<"a", "d", "d", "i", "t", "i", "o", "n">>, <<"a", "d", "d", "i", "t", "i", "o", "n">>>>,
    <<<<"a", "d", "d">>, <<"a", "d", "d", "i", "t", "i", "o", "n">>>>,
    <<<<"+">>, <<"a", "d", "d", "i", "t", "i", "o", "n">>>>,
    <<<<"m", "u", "l", "t", "i", "p", "l", "y">>, <<"m", "u", "l", "t", "i", "p", "l", "y">>>>,
    <<<<"m", "u", "l", "t", "i", "p", "l", "i", "c", "a", "t", "i", "o", "n">>, <<"m", "u", "l", "t", "i", "p", "l", "y">>>>,
    <<<<"*">>, <<"m", "u", "l", "t", "i", "p", "l", "y">>>>,
    <<<<"m", "a", "x">>, <<"m", "a", "x">>>>,
    <<<<"m", "i", "n">>, <<"m", "i", "n">>>>,
    <<<<"a", "v", "e", "r", "a", "g", "e">>, <<"a", "v", "e", "r", "a", "g", "e">>>>,
    <<<<"a", "v", "g">>, <<"a", "v", "e", "r", "a", "g", "e">>>>,
    <<<<"m", "e", "d", "i", "a", "n">>, <<"m", "e", "d", "i", "a", "n">>>>,
    <<<<"o", "r">>, <<"o", "r">>>>,
    <<<<"a", "n", "d">>, <<"a", "n", "d">>>>,
    <<<<"x", "o", "r">>, <<"x", "o", "r">>>>,
    <<<<"n", "a", "n", "d">>, <<"n", "a", "n", "d">>>>,
    <<<<"n", "o", "r">>, <<"n", "o", "r">>>>,
    <<<<"x", "n", "o", "r">>, <<"x", "n", "o", "r">>>> }

AliasNames == {<<"a", "d", "d">>, <<"+">>, <<"m", "u", "l", "t", "i", "p", "l", "i", "c", "a", "t", "i", "o", "n">>, <<"*">>, <<"a", "v", "g">>}

\* c is x or the upper-case form of x.
SameLetter(c, x) ==
    \/ c = x
    \/ \E i \in 1..Len(LowerChars) : LowerChars[i] = x /\ UpperChars[i] = c

\* str spells target in some mix of upper and lower case.
SpellsIgnoringCase(str, target) ==
    /\ Len(str) = Len(target)
    /\ \A i \in 1..Len(str) : SameLetter(str[i], target[i])

RECURSIVE ExactSum(_, _)
ExactSum(s, n) == IF n = 0 THEN 0 ELSE ExactSum(s, n - 1) + s[n]

RECURSIVE ExactProduct(_, _)
ExactProduct(s, n) == IF n = 0 THEN 1 ELSE ExactProduct(s, n - 1) * s[n]

\* The sequence srt is s in ascending order.
IsSortedPermutation(srt, s) ==
    /\ Len(srt) = Len(s)
    /\ \A i \in 1..(Len(srt) - 1) : srt[i] <= srt[i + 1]
    /\ \A v \in InputBytes :
           Cardinality({i \in 1..Len(s) : s[i] = v})
               = Cardinality({i \in 1..Len(srt) : srt[i] = v})

SmallestOf(s) == CHOOSE x \in Byte :
    (\E i \in 1..Len(s) : s[i] = x) /\ (\A i \in 1..Len(s) : x <= s[i])
LargestOf(s) == CHOOSE x \in Byte :
    (\E i \in 1..Len(s) : s[i] = x) /\ (\A i \in 1..Len(s) : x >= s[i])

(***************************************************************************)
(* Claims about the resolver (checked under SpecResolve).                  *)
(***************************************************************************)
\* C3: combinator_from_str always returns; it returns a strategy exactly
\* when the name, ignoring case, is one of the 12 canonical identifiers or
\* one of the aliases add, +, multiplication, *, avg, and that strategy's
\* identifier() is the canonical identifier of the name; otherwise None.
C3_ResolveCaseInsensitive ==
    pc = "resolved" =>
        /\ \A e \in NameTable :
               SpellsIgnoringCase(name, e[1]) =>
                   strategy.some /\ identifier(strategy.x) = e[2]
        /\ (~ \E e \in NameTable : SpellsIgnoringCase(name, e[1])) =>
               strategy = None

C3_Witness ==
    /\ pc = "resolved"
    /\ name = <<"A", "D", "D">>
    /\ strategy = Some("Addition")

\* C4: for each strategy s, combinator_from_str(s.identifier()) returns a
\* strategy of the same kind as s, and identifier() is never an alias.
C4_IdentifierRoundTrip ==
    /\ pc \in {"identified", "roundtrip"} => ident \notin AliasNames
    /\ pc = "roundtrip" => strategy2.some /\ strategy2 = strategy

C4_Witness ==
    /\ pc = "roundtrip"
    /\ strategy = Some("Multiplication")
    /\ ident = <<"m", "u", "l", "t", "i", "p", "l", "y">>
    /\ strategy2 = Some("Multiplication")

(***************************************************************************)
(* Claims about combine (checked under SpecCombine).                       *)
(***************************************************************************)
\* C5: on the empty slice combine returns 0 for min, max, average and
\* median, 0xFF for and, 0 for or and xor, and does not fail.
C5_EmptyInputPolicy ==
    (pc = "combined" /\ inputs = <<>>) =>
        /\ kind \in {"Min", "Max", "Average", "Median", "OR", "XOR"} =>
               result = Ok(0)
        /\ kind = "AND" => result = Ok(255)

C5_Witness ==
    /\ pc = "combined"
    /\ inputs = <<>>
    /\ kind = "AND"
    /\ result = Ok(255)

\* C6: addition returns sum(S) mod 256 and multiply returns product(S) mod
\* 256 for every S, also when the true sum or product exceeds 255; the call
\* never fails on overflow.
C6_WraparoundNeverFails ==
    pc = "combined" =>
        /\ kind = "Addition" =>
               result = Ok(ExactSum(inputs, Len(inputs)) % 256)
        /\ kind = "Multiplication" =>
               result = Ok(ExactProduct(inputs, Len(inputs)) % 256)

\* C7: for non-empty S median returns the middle element of sorted S when
\* len(S) is odd and floor((lower-middle + upper-middle) / 2), computed
\* exactly, when it is even; the result lies between the two middle elements.
C7_MedianExact ==
    (pc = "combined" /\ kind = "Median" /\ inputs # <<>>) =>
        \A srt \in [1..Len(inputs) -> InputBytes] :
            IsSortedPermutation(srt, inputs) =>
                LET n == Len(srt)
                    lo == srt[(n + 1) \div 2]
                    hi == srt[(n \div 2) + 1]
                IN  /\ result = Ok((lo + hi) \div 2)
                    /\ lo <= result.v /\ result.v <= hi

\* C8: for non-empty S average returns floor(sum(S) / len(S)) with the sum
\* exact, a byte between min(S) and max(S).
C8_AverageExact ==
    (pc = "combined" /\ kind = "Average" /\ inputs # <<>>) =>
        /\ result = Ok(ExactSum(inputs, Len(inputs)) \div Len(inputs))
        /\ result.v \in Byte
        /\ SmallestOf(inputs) <= result.v
        /\ result.v <= LargestOf(inputs)

C8_Witness ==
    /\ pc = "combined"
    /\ kind = "Average"
    /\ inputs = <<200, 100>>
    /\ result = Ok(150)

(***************************************************************************)
(* Claims about MapperNode.                                                *)
(***************************************************************************)
\* C1 (SpecPool): after any sequence of constructors and builder
\* operations every map's table has exactly 256 entries and tranform(b) is
\* a byte for every input byte b.
C1_TableTotal ==
    \A m \in 1..Len(maps) :
        /\ len(maps[m]) = 256
        /\ \A b \in 0..255 :
               b \in DOMAIN maps[m] /\ tranform(maps[m], b) \in 0..255

C1_Witness ==
    /\ Len(maps) = MaxMaps
    /\ last.op = "xor_node"
    /\ maps[Len(maps)] # new
    /\ len(maps[Len(maps)]) = 256

\* C2 (SpecPool): no operation mutates an existing instance: every map held
\* before a call, the receiver and the argument map included, answers
\* tranform(i) after the call as before it, for every i.
C2_NoMutation ==
    [][\A m \in 1..Len(maps) :
           /\ m \in 1..Len(maps')
           /\ \A i \in 0..255 : tranform(maps'[m], i) = tranform(maps[m], i)]_vars

C2_Witness ==
    /\ last.op = "or_node"
    /\ last.self # last.other
    /\ maps[Len(maps)] # maps[last.self]
    /\ maps[Len(maps)] # maps[last.other]

\* The last pair of P with key k.
LastWrite(P, k) ==
    P[CHOOSE j \in 1..Len(P) :
          P[j][1] = k /\ \A h \in (j + 1)..Len(P) : P[h][1] # k][2]

\* C9 (SpecApply): m.with_mapdata(P) maps each key k of P to the value of
\* the last pair of P with key k, and every other k to m.tranform(k).
C9_WithMapdataLastWins ==
    (pc = "applied" /\ last.op = "with_mapdata") =>
        LET m == maps[last.self]
            r == maps[Len(maps)]
            P == last.arg
        IN  \A k \in 0..255 :
                IF \E j \in 1..Len(P) : P[j][1] = k
                THEN tranform(r, k) = LastWrite(P, k)
                ELSE tranform(r, k) = tranform(m, k)

C9_Witness ==
    /\ pc = "applied"
    /\ last.op = "with_mapdata"
    /\ last.arg = << <<1, 42>>, <<255, 99>>, <<1, 99>> >>
    /\ maps[last.self] = new
    /\ tranform(maps[Len(maps)], 1) = 99
    /\ tranform(maps[Len(maps)], 255) = 99
    /\ tranform(maps[Len(maps)], 0) = 0

\* Bitwise operations on bytes stated on the sets of their one-bits.
OneBits(x) == {n \in 0..7 : (x \div (2 ^ n)) % 2 = 1}
IsAndOf(z, x, y) == OneBits(z) = OneBits(x) \cap OneBits(y)
IsOrOf(z, x, y) == OneBits(z) = OneBits(x) \cup OneBits(y)
IsXorOf(z, x, y) ==
    OneBits(z) = (OneBits(x) \cup OneBits(y)) \ (OneBits(x) \cap OneBits(y))

\* C10 (SpecApply): and_node, or_node and xor_node are positional: the
\* result at i is a.tranform(i) combined with b.tranform(i), b's entry at
\* the same index.
C10_NodeOpsPositional ==
    pc = "applied" =>
        LET a == maps[last.self]
            r == maps[Len(maps)]
        IN  /\ last.op = "and_node" =>
                \A i \in 0..255 :
                    IsAndOf(tranform(r, i), tranform(a, i),
                            tranform(maps[last.other], i))
            /\ last.op = "or_node" =>
                \A i \in 0..255 :
                    IsOrOf(tranform(r, i), tranform(a, i),
                           tranform(maps[last.other], i))
            /\ last.op = "xor_node" =>
                \A i \in 0..255 :
                    IsXorOf(tranform(r, i), tranform(a, i),
                            tranform(maps[last.other], i))

C10_Witness ==
    /\ pc = "applied"
    /\ last.op = "and_node"
    /\ maps[1] = new_transformation("add_one")
    /\ maps[2] = new_transformation("identity")
    /\ tranform(maps[3], 2) = 2
    /\ tranform(maps[2], tranform(maps[1], 2)) = 3

(***************************************************************************)
(* Claims about the preset maps (checked under SpecDefaults).              *)
(***************************************************************************)
\* The instances made by the preset function f.
MadeBy(f) == {m \in 1..Len(maps) : made[m] = f}

\* C11: the map returned by create_mapper_for_character maps space (0x20),
\* tab (0x09) and newline (0x0A) to 0b0001_0000.
C11_WhitespaceTagged ==
    \A m \in MadeBy("create_mapper_for_character") :
        /\ tranform(maps[m], 32) = 16
        /\ tranform(maps[m], 9) = 16
        /\ tranform(maps[m], 10) = 16

\* C12: the map returned by create_mapper_for_character tags each class
\* with its own bit: digits 0x01, lowercase letters 0x02, uppercase letters
\* 0x04, and the other printable characters of '!'..'~' 0x08.
C12_ClassBits ==
    \A m \in MadeBy("create_mapper_for_character") :
        /\ \A c \in 48..57 : tranform(maps[m], c) = 1
        /\ \A c \in 97..122 : tranform(maps[m], c) = 2
        /\ \A c \in 65..90 : tranform(maps[m], c) = 4
        /\ \A c \in (33..126) \ ((48..57) \cup (97..122) \cup (65..90)) :
               tranform(maps[m], c) = 8

\* C13: create_mapper_pyramid() maps every i < 128 to i and every i >= 128
\* to 255 - i, and create_mapper_pyramid_inverted() is its complement: at
\* every i it gives 255 - create_mapper_pyramid().tranform(i), which is
\* create_mapper_pyramid().invert() at i.
C13_PyramidComplement ==
    /\ \A p \in MadeBy("create_mapper_pyramid") :
           \A i \in 0..255 :
               tranform(maps[p], i) = (IF i < 128 THEN i ELSE 255 - i)
    /\ \A p \in MadeBy("create_mapper_pyramid") :
           \A q \in MadeBy("create_mapper_pyramid_inverted") :
               \A i \in 0..255 :
                   /\ tranform(maps[q], i) = 255 - tranform(maps[p], i)
                   /\ tranform(maps[q], i) = tranform(invert(maps[p]), i)

C13_Witness ==
    /\ made = <<"create_mapper_pyramid", "create_mapper_pyramid_inverted">>
    /\ tranform(maps[1], 127) = 127
    /\ tranform(maps[1], 128) = 127
    /\ tranform(maps[2], 127) = 128
    /\ tranform(maps[2], 128) = 128

(***************************************************************************)
(* Claims about Node (checked under SpecNode).                             *)
(***************************************************************************)
\* C14: for a Node built by Node::new(), tranform(b) returns a byte for
\* every input byte b, b = 255 included, and never indexes outside its
\* table.
C14_NodeTranformTotal ==
    pc = "node_transformed" => (result.ok /\ result.v \in 0..255)

====
